---- MODULE Spec2Model ----
(***************************************************************************)
(* console-mcp: the live log acquisition and pattern-triggered capture     *)
(* engine of the MCP server (getMacLogs, getLogsByLevel, getSimulatorLogs, *)
(* getDeviceLogs, searchLogs, streamDeviceLogs, streamSimulatorLogs,       *)
(* watchForPattern) together with the tool-call handler that invokes it.   *)
(*                                                                         *)
(* One tool call is followed from the request to the resolution of the    *)
(* engine's promise and beyond (late events of the child process and of   *)
(* the timer).  Text is a sequence of symbols: the characters the child   *)
(* writes ("a", "\n") and, as single symbols, the literal message parts   *)
(* the code concatenates ("[stderr] ", "Timeout", ...).                    *)
(***************************************************************************)
EXTENDS Integers, Sequences, FiniteSets, TLC

\* ------------------------------------------------------------------ bounds
\* Total number of characters the child writes to standard output.
MaxStream == 3
\* Number of chunks the child writes to standard error.
MaxErr == 1
\* The longest pattern and the longest line handed to a matcher on its own.
MaxProbeLen == 2
\* The most lines one matcher is asked about.
MaxTests == 2
\* The most files one crash report directory holds.
MaxFiles == 2
\* The most characters the child of one of two concurrent calls writes.
MaxCallStream == 2

\* ------------------------------------------------------- program constants
MacLogsTimeoutMs == 15000
SimLogsTimeoutMs == 15000
LevelLogsTimeoutMs == 15000
SearchTimeoutMs == 30000
DeviceMaxCollectMs == 10000
DeviceMaxLastMinutes == 10
StreamMaxSeconds == 30
StreamDefaultSeconds == 10
WatchMaxSeconds == 60
WatchDefaultSeconds == 30
DefaultMaxLines == 200
SearchDefaultMaxLines == 100
DefaultLastDays == 7
DefaultMaxReports == 10
DefaultLastMinutes == 5

\* -------------------------------------------------------------------- text
LF == "\n"

\* The characters a child writes to its standard output.
Alphabet == {"a", LF}

\* Every text over Alphabet of length 1..n (one "data" event carries >= 1 byte).
Chunks(n) == UNION {[1..k -> Alphabet] : k \in 1..n}

\* The chunks of a stream, one after another.
RECURSIVE FlattenChunks(_)
FlattenChunks(chunks) ==
    IF chunks = <<>> THEN <<>> ELSE Head(chunks) \o FlattenChunks(Tail(chunks))

\* What the child may write to standard error in one chunk.
ErrChunks == {<<"e", LF>>, <<"waiting", LF>>}

Min(x, y) == IF x <= y THEN x ELSE y

\* String.prototype.toLowerCase, character by character.
ToLower(c) == CASE c = "A" -> "a" [] c = "E" -> "e" [] OTHER -> c

toLowerCase(s) == [i \in 1..Len(s) |-> ToLower(s[i])]

\* String.prototype.includes
includes(s, p) == \E i \in 0..(Len(s) - Len(p)) : SubSeq(s, i + 1, i + Len(p)) = p

\* String.prototype.trim: strips leading and trailing white space.
RECURSIVE trim(_)
trim(s) ==
    IF s = <<>> THEN s
    ELSE IF Head(s) \in {" ", LF} THEN trim(Tail(s))
    ELSE IF s[Len(s)] \in {" ", LF} THEN trim(SubSeq(s, 1, Len(s) - 1))
    ELSE s

\* String.prototype.split("\n"): the pieces between line feeds; a text that
\* ends with a line feed yields a last, empty piece.
RECURSIVE split(_)
split(s) ==
    IF \A i \in 1..Len(s) : s[i] # LF THEN <<s>>
    ELSE LET i == CHOOSE k \in 1..Len(s) : s[k] = LF /\ \A j \in 1..(k - 1) : s[j] # LF
         IN  <<SubSeq(s, 1, i - 1)>> \o split(SubSeq(s, i + 1, Len(s)))

\* x || d on a text: the empty string is falsy.
OrText(x, d) == IF x = <<>> THEN d ELSE x

\* x || d on an optional number (<<>> is undefined): undefined and 0 are falsy.
OrNum(x, d) == IF x = <<>> \/ x[1] = 0 THEN d ELSE x[1]

\* new RegExp(p, "i") throws on an unterminated character class.
RegExpCompiles(p) ==
    \A i \in 1..Len(p) : p[i] = "[" => \E j \in (i + 1)..Len(p) : p[j] = "]"

\* String(e) of the SyntaxError new RegExp(p, "i") throws: it quotes the
\* pattern.
RegExpError(p) ==
    <<"SyntaxError: Invalid regular expression: /">> \o p
        \o <<"/: Unterminated character class">>

\* regex.test(line) for the patterns of the model, which are literal texts:
\* an unanchored, case-insensitive search.
RegExpTest(p, line) == includes(toLowerCase(line), toLowerCase(p))

matcherKeepsCaseOfLine(re, p, line) ==
    IF re THEN includes(toLowerCase(line), toLowerCase(p))
    ELSE includes(line, toLowerCase(p))

\* The matcher searchLogs and watchForPattern build from (useRegex, pattern).
matcher(re, p, line) ==
    IF re THEN RegExpTest(p, line)
    ELSE includes(toLowerCase(line), toLowerCase(p))


\* ------------------------------------------------------------- environment
\* What `xcrun simctl list devices -j` reports, in order.
Simulators ==
    << [udid |-> <<"s", "1">>, name |-> <<"A">>, state |-> "Booted"],
       [udid |-> <<"s", "2">>, name |-> <<"E">>, state |-> "Shutdown"] >>

\* What `xcrun devicectl list devices` reports, in order.
Devices == << [udid |-> <<"d", "1">>, name |-> <<"A">>] >>

getSimulators == Simulators

getConnectedDevices == Devices

\* Array.prototype.find: the first element that satisfies the test, or none
\* (<<>> stands for undefined, <<x>> for the element x).
findSimulator(identifier) ==
    LET hit(i) == \/ getSimulators[i].udid = identifier
                  \/ toLowerCase(getSimulators[i].name) = toLowerCase(identifier)
        idx == {i \in 1..Len(getSimulators) : hit(i)}
    IN  IF idx = {} THEN <<>>
        ELSE <<getSimulators[CHOOSE i \in idx : \A j \in idx : i <= j]>>

findDeviceFirst(identifier) == <<getConnectedDevices[1]>>

findDevice(identifier) ==
    LET hit(i) == \/ getConnectedDevices[i].udid = identifier
                  \/ toLowerCase(getConnectedDevices[i].name) = toLowerCase(identifier)
        idx == {i \in 1..Len(getConnectedDevices) : hit(i)}
    IN  IF idx = {} THEN <<>>
        ELSE <<getConnectedDevices[CHOOSE i \in idx : \A j \in idx : i <= j]>>

\* -------------------------------------------------------------------- state
VARIABLES
    req,            \* the tool call being served: its name and arguments
    response,       \* the text the tool call returned (<<>>: not yet)
    hasIdevicesyslog, \* what `which idevicesyslog` answered when the call asked
    op,             \* the engine function the call is in ("none": none)
    maxLines,       \* the engine function's maxLines parameter
    useRegex,       \* ... its useRegex parameter
    pattern,        \* ... its query / pattern parameter
    subject,        \* the text its messages interpolate (udid, name, level)
    proc,           \* the child: none, failing, failed, running, exited, closed
    killed,         \* child.killed: a signal was delivered to the live child
    killCalls,      \* number of child.kill() calls made
    uncaught,       \* an 'error' event found no listener (uncaught exception)
    spawned,        \* number of spawn() calls made
    output,         \* the closure's `output`
    lineCount,      \* the closure's `lineCount`
    found,          \* the closure's `found`
    matchedLine,    \* the closure's `matchedLine`
    timer,          \* the setTimeout of the call: none, armed, fired
    delay,          \* the delay handed to setTimeout, in ms
    clock,          \* ms since the call started
    resolved,       \* whether the promise is settled
    result,         \* the value the promise was resolved with
    resolvedBy,     \* history: the callback whose resolve() settled the promise
    resolvedAt,     \* history: the clock when the promise was settled
    procAtResolve,  \* history: the child's state when the promise was settled
    outputAtResolve, \* history: `output` when the promise was settled
    emitted,        \* history: everything the child wrote to stdout so far
    errCount,       \* history: number of stderr chunks so far
    errChunks,      \* history: the stderr chunks so far, in arrival order
    race,           \* history: which of first match / timer came first
    outputAtMatch,  \* history: `output` right after the matched line was added
    lateWork,       \* history: data was matched or retained after a kill() call
    probe,          \* the matcher closure under test and its last answer
    crash,          \* the get_crash_logs call: directories, arguments, result
    calls,          \* two getMacLogs calls in flight together, each with its closure
    activeStreams,  \* the module's activeStreams map (its keys)
    disk            \* what the call did to the file system: files read and written

callVars == <<probe, crash, calls, activeStreams>>
sideVars == <<callVars, disk>>
reqVars == <<req, hasIdevicesyslog, sideVars>>
parVars == <<op, maxLines, useRegex, pattern, subject>>
procVars == <<proc, killed, killCalls, uncaught, spawned>>
bufVars == <<output, lineCount, found, matchedLine>>
timerVars == <<timer, delay, clock>>
resVars == <<resolved, result, response, resolvedBy, resolvedAt, procAtResolve,
            outputAtResolve>>
histVars == <<emitted, errCount, errChunks, race, outputAtMatch, lateWork>>
vars == <<reqVars, parVars, procVars, bufVars, timerVars, resVars, histVars>>

\* A promise that is not settled carries no value.
Pending == [pending |-> TRUE]

\* A tool call: every argument is optional (<<>>: not supplied).
Request(t) ==
    [tool |-> t, device |-> <<>>, simulator |-> <<>>, level |-> <<>>,
     query |-> <<>>, useRegex |-> <<>>, maxLines |-> <<>>, lastMinutes |-> <<>>,
     durationSeconds |-> <<>>, timeoutSeconds |-> <<>>, logs |-> <<>>,
     filename |-> <<>>, format |-> <<>>]

NoRequest == Request("none")

\* The calls that run together.
Callers == {1, 2}

\* A call that has not started: no child, an empty closure, a pending promise.
NoCall == [phase |-> "idle", child |-> 0, maxLines |-> 0, output |-> <<>>,
           lineCount |-> 0, timer |-> "none", killed |-> FALSE, resolved |-> FALSE,
           result |-> <<>>, resolvedBy |-> "none", chunks |-> <<>>,
           chunksAtResolve |-> <<>>]

\* get_crash_logs has not been called.
NoCrash == [called |-> FALSE, dirs |-> <<>>, process |-> <<>>, lastDays |-> 0,
            maxReports |-> 0, reports |-> <<>>, summary |-> <<>>]

\* No matcher has been built.
NoProbe == [built |-> FALSE, useRegex |-> FALSE, pattern |-> <<>>, line |-> <<>>,
            answer |-> FALSE, tested |-> 0]

Init ==
    /\ req = NoRequest
    /\ response = <<>>
    /\ hasIdevicesyslog = FALSE
    /\ op = "none"
    /\ maxLines = 0
    /\ useRegex = FALSE
    /\ pattern = <<>>
    /\ subject = <<>>
    /\ proc = "none"
    /\ killed = FALSE
    /\ killCalls = 0
    /\ uncaught = FALSE
    /\ spawned = 0
    /\ output = <<>>
    /\ lineCount = 0
    /\ found = FALSE
    /\ matchedLine = <<>>
    /\ timer = "none"
    /\ delay = 0
    /\ clock = 0
    /\ resolved = FALSE
    /\ result = Pending
    /\ resolvedBy = "none"
    /\ resolvedAt = 0
    /\ procAtResolve = "none"
    /\ outputAtResolve = <<>>
    /\ emitted = <<>>
    /\ errCount = 0
    /\ errChunks = <<>>
    /\ race = "none"
    /\ outputAtMatch = <<>>
    /\ lateWork = FALSE
    /\ probe = NoProbe
    /\ crash = NoCrash
    /\ calls = [i \in Callers |-> NoCall]
    /\ activeStreams = {}
    /\ disk = [read |-> <<>>, written |-> {}]

\* ------------------------------------------------ the tool call's reply
\* String.prototype.toUpperCase on a level name.
toUpperCase(l) ==
    CASE l = "error" -> "ERROR" [] l = "fault" -> "FAULT" [] l = "info" -> "INFO"
      [] l = "debug" -> "DEBUG" [] l = "warning" -> "WARNING" [] OTHER -> l

\* The timeout watch_for_pattern hands to watchForPattern, in seconds.
WatchTimeoutSeconds(r) == Min(OrNum(r.timeoutSeconds, WatchDefaultSeconds), WatchMaxSeconds)

\* The duration stream_logs / stream_simulator_logs hand to the engine.
StreamDurationSeconds(r) ==
    Min(OrNum(r.durationSeconds, StreamDefaultSeconds), StreamMaxSeconds)

\* The text the handler returns once the engine's promise resolved with v.
Reply(r, v) ==
    CASE r.tool = "get_device_logs" ->
            <<"Logs from ">> \o findDevice(r.device[1])[1].name \o <<":", LF, LF>> \o v.text
      [] r.tool = "get_simulator_logs" ->
            <<"Logs from ">> \o findSimulator(r.simulator[1])[1].name
                \o <<":", LF, LF>> \o v.text
      [] r.tool = "get_logs_by_level" ->
            <<toUpperCase(r.level[1]), " logs:", LF, LF>> \o v.text
      [] r.tool = "watch_for_pattern" ->
            IF v.found
            THEN <<"Pattern found!", LF, LF, "Matched line:", LF>> \o v.matchedLine
                     \o <<LF, LF, "Full log output:", LF>> \o v.allOutput
            ELSE <<"Pattern \"">> \o r.query[1] \o <<"\" not found within ",
                     ToString(WatchTimeoutSeconds(r)), " seconds.", LF, LF,
                     "Captured logs:", LF>> \o v.allOutput
      [] OTHER -> v.text

\* ------------------------------------------------------------ primitives
\* resolve(v): settles the promise; a promise settles once, later calls of
\* resolve are ignored.  by, p, t are recorded for the history variables.
ResolveOverwrites(r, v, by, p, t) ==
    /\ resolved' = TRUE
    /\ result' = v
    /\ response' = Reply(r, v)
    /\ resolvedBy' = by
    /\ resolvedAt' = t
    /\ procAtResolve' = p
    /\ outputAtResolve' = output

Resolve(r, v, by, p, t) ==
    /\ resolved' = TRUE
    /\ result' = IF resolved THEN result ELSE v
    /\ response' = IF resolved THEN response ELSE Reply(r, v)
    /\ resolvedBy' = IF resolved THEN resolvedBy ELSE by
    /\ resolvedAt' = IF resolved THEN resolvedAt ELSE t
    /\ procAtResolve' = IF resolved THEN procAtResolve ELSE p
    /\ outputAtResolve' = IF resolved THEN outputAtResolve ELSE output

\* child.kill(): the signal is delivered when the child is alive; on a child
\* that already exited (or never started) it returns false and does nothing.
\* The value is child.killed after the call.
killMarksAlways(p, k) == TRUE

killSendsNothing(p, k) == k

kill(p, k) == k \/ p = "running"

\* setTimeout(cb, ms): a delay below 1 ms is run as 1 ms.
TimerDelay(ms) == IF ms >= 1 THEN ms ELSE 1

\* spawn(command, args): the child starts, or (command not found, not
\* executable) an 'error' event is queued for the next tick.
spawn ==
    /\ \E ok \in BOOLEAN : proc' = IF ok THEN "running" ELSE "failing"
    /\ spawned' = spawned + 1
    /\ UNCHANGED <<killed, killCalls, uncaught>>

setTimeout(ms) ==
    /\ timer' = "armed"
    /\ delay' = ms
    /\ clock' = clock

SetParams(o, ml, re, pat, subj) ==
    /\ op' = o
    /\ maxLines' = ml
    /\ useRegex' = re
    /\ pattern' = pat
    /\ subject' = subj

\* The handler returns a text without calling the engine.
RejectAfterSpawn(r, text) ==
    /\ req' = r /\ UNCHANGED sideVars
    /\ response' = text
    /\ spawned' = spawned + 1
    /\ UNCHANGED <<hasIdevicesyslog, parVars, proc, killed, killCalls, uncaught, bufVars,
                   timerVars, histVars, resolved, result, resolvedBy, resolvedAt,
                   procAtResolve, outputAtResolve>>

Reject(r, text) ==
    /\ req' = r /\ UNCHANGED sideVars
    /\ response' = text
    /\ UNCHANGED <<hasIdevicesyslog, parVars, procVars, bufVars, timerVars, histVars,
                   resolved, result, resolvedBy, resolvedAt, procAtResolve,
                   outputAtResolve>>

\* The promise executor resolved before spawning anything.
ResolveAtOnce(r, v, by) ==
    /\ Resolve(r, v, by, "none", clock)
    /\ UNCHANGED <<procVars, bufVars, timerVars, histVars>>

\* The promise executor spawned the child, attached its listeners and armed
\* the timer.
Launch(ms) ==
    /\ spawn
    /\ setTimeout(ms)
    /\ UNCHANGED <<bufVars, histVars, resVars>>

\* ------------------------------------------------------- engine functions
\* Each is the promise executor of the function: what runs, synchronously,
\* when the handler calls it.
StringResult(t) == [text |-> t]

getMacLogs(r, ml) ==
    /\ SetParams("getMacLogs", ml, FALSE, <<>>, <<>>)
    /\ Launch(MacLogsTimeoutMs)

getLogsByLevel(r, level, ml) ==
    /\ SetParams("getLogsByLevel", ml, FALSE, <<>>, <<level>>)
    /\ Launch(LevelLogsTimeoutMs)

getDeviceLogsNoCheck(r, udid, lastMinutes, ml) ==
    /\ SetParams("getDeviceLogs", ml, FALSE, <<>>, udid)
    /\ Launch(Min(lastMinutes * 1000, DeviceMaxCollectMs))

getDeviceLogs(r, udid, lastMinutes, ml) ==
    /\ SetParams("getDeviceLogs", ml, FALSE, <<>>, udid)
    /\ IF hasIdevicesyslog'
       THEN Launch(Min(lastMinutes * 1000, DeviceMaxCollectMs))
       ELSE ResolveAtOnce(r, StringResult(<<"idevicesyslog not found. brew install libimobiledevice">>),
                          "precheck")

getSimulatorLogsAnyState(r, udid, ml) ==
    /\ SetParams("getSimulatorLogs", ml, FALSE, <<>>, udid)
    /\ Launch(SimLogsTimeoutMs)

getSimulatorLogs(r, udid, ml) ==
    LET simulator == findSimulator(udid) IN
    IF simulator = <<>>
    THEN /\ SetParams("getSimulatorLogs", ml, FALSE, <<>>, udid)
         /\ ResolveAtOnce(r, StringResult(<<"Simulator with identifier \"">> \o udid
                                              \o <<"\" not found">>), "precheck")
    ELSE /\ SetParams("getSimulatorLogs", ml, FALSE, <<>>, simulator[1].name)
         /\ IF simulator[1].state # "Booted"
            THEN ResolveAtOnce(r, StringResult(<<"Simulator \"">> \o simulator[1].name
                                  \o <<"\" is not running (state: ", simulator[1].state,
                                       "). Boot it first">>), "precheck")
            ELSE Launch(SimLogsTimeoutMs)

streamSimulatorLogs(r, udid, durationSeconds) ==
    LET simulator == findSimulator(udid) IN
    IF simulator = <<>>
    THEN /\ SetParams("streamSimulatorLogs", 0, FALSE, <<>>, udid)
         /\ ResolveAtOnce(r, StringResult(<<"Simulator with identifier \"">> \o udid
                                              \o <<"\" not found">>), "precheck")
    ELSE /\ SetParams("streamSimulatorLogs", 0, FALSE, <<>>, simulator[1].name)
         /\ IF simulator[1].state # "Booted"
            THEN ResolveAtOnce(r, StringResult(<<"Simulator \"">> \o simulator[1].name
                                  \o <<"\" is not running. Boot it first">>), "precheck")
            ELSE Launch(durationSeconds * 1000)

\* `which idevicesyslog` only chooses the command that is spawned.
streamDeviceLogs(r, udid, durationSeconds) ==
    /\ SetParams("streamDeviceLogs", 0, FALSE, <<>>, udid)
    /\ Launch(durationSeconds * 1000)

\* spawn() comes first; the pattern is compiled after it, and a pattern that
\* does not compile resolves and returns before any listener is attached
\* and before the timer is armed.
searchLogs(r, query, ml, re) ==
    /\ SetParams("searchLogs", ml, re, query, query)
    /\ IF re /\ ~RegExpCompiles(query)
       THEN /\ spawn
            /\ Resolve(r, StringResult(<<"Invalid regex pattern: ">> \o query
                                          \o <<LF, "Error: ">> \o RegExpError(query)),
                       "regex", proc', clock)
            /\ UNCHANGED <<bufVars, timerVars, histVars>>
       ELSE Launch(SearchTimeoutMs)

watchForPattern(r, pat, re, timeoutSeconds) ==
    /\ SetParams("watchForPattern", 0, re, pat, pat)
    /\ IF re /\ ~RegExpCompiles(pat)
       THEN /\ spawn
            /\ Resolve(r, [found |-> FALSE, matchedLine |-> <<>>,
                           allOutput |-> <<"Invalid regex: ">> \o RegExpError(pat)],
                       "regex", proc', clock)
            /\ UNCHANGED <<bufVars, timerVars, histVars>>
       ELSE Launch(timeoutSeconds * 1000)

\* ------------------------------------------------------------ tool calls
\* The arguments a caller may supply (<<>>: omitted).
OptMaxLines == {<<>>, <<0>>, <<1>>}
OptSeconds == {<<>>, <<-1>>, <<90>>}
OptLastMinutes == {<<>>, <<20>>}
OptRegex == {<<>>, <<TRUE>>}
OptPattern == {<<>>, << <<>> >>, << <<"a">> >>, << <<"A", "a">> >>, << <<"[">> >>}
OptSimulator == {<<>>, << <<>> >>, << <<"a">> >>, << <<"s", "2">> >>, << <<"x">> >>}
OptDevice == {<<>>, << <<>> >>, << <<"a">> >>, << <<"x">> >>}
OptLevel == {<<>>, <<"error">>}

\* list.map(x => `- ${x.name} (${x.udid})`).join("\n")
RECURSIVE describe(_)
describe(list) ==
    IF list = <<>> THEN <<>>
    ELSE <<"- ">> \o Head(list).name \o <<" (">> \o Head(list).udid \o <<")">>
            \o (IF Len(list) > 1 THEN <<LF>> ELSE <<>>) \o describe(Tail(list))

\* What get_device_logs replies when findDevice found nothing.
deviceNotFound(deviceId) ==
    LET devices == getConnectedDevices IN
    <<"Device \"">> \o deviceId \o <<"\" not found.">> \o
        (IF Len(devices) = 0 THEN <<" No devices are currently connected.">>
         ELSE <<LF, LF, "Available devices:", LF>> \o describe(devices))

\* What get_simulator_logs replies when findSimulator found nothing.
simulatorNotFound(simulatorId) ==
    LET IsBooted(x) == x.state = "Booted"
        bootedSims == SelectSeq(getSimulators, IsBooted) IN
    <<"Simulator \"">> \o simulatorId \o <<"\" not found.">> \o
        (IF Len(bootedSims) = 0 THEN <<" No simulators are currently running.">>
         ELSE <<LF, LF, "Running simulators:", LF>> \o describe(bootedSims))

\* args?.useRegex as boolean || false
RegexArg(r) == r.useRegex # <<>> /\ r.useRegex[1]

get_logs ==
    /\ req = NoRequest
    /\ \E m \in OptMaxLines :
         LET r == [Request("get_logs") EXCEPT !.maxLines = m] IN
         /\ req' = r /\ UNCHANGED sideVars
         /\ UNCHANGED hasIdevicesyslog
         /\ getMacLogs(r, OrNum(r.maxLines, DefaultMaxLines))

get_logs_by_level ==
    /\ req = NoRequest
    /\ \E m \in OptMaxLines, l \in OptLevel :
         LET r == [Request("get_logs_by_level") EXCEPT !.maxLines = m, !.level = l] IN
         IF r.level = <<>>
         THEN Reject(r, <<"Error: ", "level", " is required", " (fault, error, warning, info, debug)">>)
         ELSE /\ req' = r /\ UNCHANGED sideVars
              /\ UNCHANGED hasIdevicesyslog
              /\ getLogsByLevel(r, r.level[1], OrNum(r.maxLines, DefaultMaxLines))

get_device_logs ==
    /\ req = NoRequest
    /\ \E m \in OptMaxLines, d \in OptDevice, lm \in OptLastMinutes :
         LET r == [Request("get_device_logs") EXCEPT
                      !.maxLines = m, !.device = d, !.lastMinutes = lm]
             lastMinutes == Min(OrNum(r.lastMinutes, DefaultLastMinutes), DeviceMaxLastMinutes)
         IN
         IF r.device = <<>> \/ r.device[1] = <<>>
         THEN Reject(r, <<"Error: ", "device parameter", " is required",
                        ". Use list_devices to find device name or UDID.">>)
         ELSE IF findDevice(r.device[1]) = <<>>
         THEN Reject(r, deviceNotFound(r.device[1]))
         ELSE /\ req' = r /\ UNCHANGED sideVars
              /\ \E w \in BOOLEAN : hasIdevicesyslog' = w
              /\ getDeviceLogs(r, findDevice(r.device[1])[1].udid, lastMinutes,
                               OrNum(r.maxLines, DefaultMaxLines))

get_simulator_logs ==
    /\ req = NoRequest
    /\ \E m \in OptMaxLines, sim \in OptSimulator :
         LET r == [Request("get_simulator_logs") EXCEPT !.maxLines = m, !.simulator = sim] IN
         IF r.simulator = <<>> \/ r.simulator[1] = <<>>
         THEN Reject(r, <<"Error: ", "simulator parameter", " is required",
                        ". Use list_simulators to find simulator name or UDID.">>)
         ELSE IF findSimulator(r.simulator[1]) = <<>>
         THEN Reject(r, simulatorNotFound(r.simulator[1]))
         ELSE /\ req' = r /\ UNCHANGED sideVars
              /\ UNCHANGED hasIdevicesyslog
              /\ getSimulatorLogs(r, findSimulator(r.simulator[1])[1].udid,
                                  OrNum(r.maxLines, DefaultMaxLines))

stream_logs ==
    /\ req = NoRequest
    /\ \E d \in OptSeconds :
         LET r == [Request("stream_logs") EXCEPT !.durationSeconds = d] IN
         /\ req' = r /\ UNCHANGED sideVars
         /\ \E w \in BOOLEAN : hasIdevicesyslog' = w
         /\ streamDeviceLogs(r, <<>>, StreamDurationSeconds(r))

stream_simulator_logs ==
    /\ req = NoRequest
    /\ \E d \in OptSeconds, sim \in OptSimulator :
         LET r == [Request("stream_simulator_logs") EXCEPT
                      !.durationSeconds = d, !.simulator = sim] IN
         IF r.simulator = <<>> \/ r.simulator[1] = <<>>
         THEN Reject(r, <<"Error: ", "simulator parameter", " is required", ".">>)
         ELSE /\ req' = r /\ UNCHANGED sideVars
              /\ UNCHANGED hasIdevicesyslog
              /\ streamSimulatorLogs(r, r.simulator[1], StreamDurationSeconds(r))

search_logs ==
    /\ req = NoRequest
    /\ \E m \in OptMaxLines, q \in OptPattern, re \in OptRegex :
         LET r == [Request("search_logs") EXCEPT
                      !.maxLines = m, !.query = q, !.useRegex = re] IN
         IF r.query = <<>> \/ r.query[1] = <<>>
         THEN Reject(r, <<"Error: ", "query", " is required">>)
         ELSE /\ req' = r /\ UNCHANGED sideVars
              /\ UNCHANGED hasIdevicesyslog
              /\ searchLogs(r, r.query[1], OrNum(r.maxLines, SearchDefaultMaxLines),
                            RegexArg(r))

watch_for_pattern ==
    /\ req = NoRequest
    /\ \E t \in OptSeconds, q \in OptPattern, re \in OptRegex :
         LET r == [Request("watch_for_pattern") EXCEPT
                      !.timeoutSeconds = t, !.query = q, !.useRegex = re] IN
         IF r.query = <<>> \/ r.query[1] = <<>>
         THEN Reject(r, <<"Error: ", "pattern", " is required">>)
         ELSE /\ req' = r /\ UNCHANGED sideVars
              /\ UNCHANGED hasIdevicesyslog
              /\ watchForPattern(r, r.query[1], RegexArg(r), WatchTimeoutSeconds(r))

\* ------------------------------------------------------ stdout listeners
\* Whether the executor got as far as attaching listeners and arming the
\* timer (it does both or neither).
Listening == timer # "none"

\* The test a capped operation applies to a line before the cap test.
keeps(o, line) ==
    CASE o = "getDeviceLogs" -> trim(line) # <<>>
      [] o = "searchLogs" -> matcher(useRegex, pattern, line)
      [] OTHER -> TRUE

\* for (const line of lines) if (<test> && lineCount < maxLines)
\*     { output += line + "\n"; lineCount++; }
\* getDeviceLogs tests the cap first, the others the line first; both tests
\* are pure, so the order does not show.
RECURSIVE retainOneMore(_, _, _, _, _)
retainOneMore(o, lines, out, cnt, max) ==
    IF lines = <<>> THEN [output |-> out, lineCount |-> cnt]
    ELSE IF keeps(o, Head(lines)) /\ cnt <= max
         THEN retainOneMore(o, Tail(lines), out \o Head(lines) \o <<LF>>, cnt + 1, max)
         ELSE retainOneMore(o, Tail(lines), out, cnt, max)

RECURSIVE retain(_, _, _, _, _)
retain(o, lines, out, cnt, max) ==
    IF lines = <<>> THEN [output |-> out, lineCount |-> cnt]
    ELSE IF keeps(o, Head(lines)) /\ cnt < max
         THEN retain(o, Tail(lines), out \o Head(lines) \o <<LF>>, cnt + 1, max)
         ELSE retain(o, Tail(lines), out, cnt, max)

\* watchForPattern's loop over the lines of one chunk: every line is added
\* to output; the first line that matches sets found and matchedLine and
\* kills the child; the loop goes on to the end of the chunk.
\* st.kills counts the kill() calls, st.atMatch is output right after the
\* matched line was added, st.tested whether the matcher ran.
RECURSIVE watchLines(_, _)
watchLines(lines, st) ==
    IF lines = <<>> THEN st
    ELSE LET line == Head(lines)
             out == st.output \o line \o <<LF>>
             hit == ~st.found /\ matcher(useRegex, pattern, line)
         IN  watchLines(Tail(lines),
                 [output |-> out,
                  found |-> st.found \/ hit,
                  matchedLine |-> IF hit THEN line ELSE st.matchedLine,
                  kills |-> IF hit THEN st.kills + 1 ELSE st.kills,
                  atMatch |-> IF hit THEN out ELSE st.atMatch,
                  tested |-> st.tested \/ ~st.found])

CappedOps == {"getMacLogs", "getLogsByLevel", "getSimulatorLogs", "getDeviceLogs",
              "searchLogs"}
StreamOps == {"streamDeviceLogs", "streamSimulatorLogs"}

stdoutKillsAtCap(o, st) ==
    IF o = "watchForPattern" THEN st.kills
    ELSE IF st.lineCount >= maxLines THEN 1 ELSE 0

\* The child.kill() calls a stdout listener makes for one chunk, st being
\* what its loop over the lines of the chunk ended with: watchForPattern
\* calls kill() at a match, the capped listeners never do.
stdoutKills(o, st) == IF o = "watchForPattern" THEN st.kills ELSE 0

\* child.stdout.on("data", ...)
StdoutData ==
    /\ Listening /\ ~uncaught
    /\ proc \in {"running", "exited"}
    /\ Len(emitted) < MaxStream
    /\ \E data \in Chunks(MaxStream - Len(emitted)) :
         /\ emitted' = emitted \o data
         /\ CASE op \in CappedOps ->
                   LET new == retain(op, split(data), output, lineCount, maxLines) IN
                   /\ output' = new.output
                   /\ lineCount' = new.lineCount
                   /\ lateWork' = (lateWork \/ (killCalls > 0 /\
                                      (op = "searchLogs" \/ (~resolved /\ new.output # output))))
                   /\ killCalls' = killCalls + stdoutKills(op, new)
                   /\ killed' = IF stdoutKills(op, new) > 0 THEN kill(proc, killed)
                                 ELSE killed
                   /\ UNCHANGED <<found, matchedLine, proc, uncaught, spawned, race,
                                  outputAtMatch>>
              [] op \in StreamOps ->
                   /\ output' = output \o data
                   /\ lateWork' = (lateWork \/ (killCalls > 0 /\ ~resolved))
                   /\ UNCHANGED <<lineCount, found, matchedLine, procVars, race,
                                  outputAtMatch>>
              [] op = "watchForPattern" ->
                   LET new == watchLines(split(data),
                                  [output |-> output, found |-> found,
                                   matchedLine |-> matchedLine, kills |-> 0,
                                   atMatch |-> outputAtMatch, tested |-> FALSE]) IN
                   /\ output' = new.output
                   /\ found' = new.found
                   /\ matchedLine' = new.matchedLine
                   /\ outputAtMatch' = new.atMatch
                   /\ killCalls' = killCalls + stdoutKills(op, new)
                   /\ killed' = IF stdoutKills(op, new) > 0 THEN kill(proc, killed)
                                 ELSE killed
                   /\ race' = IF race = "none" /\ new.found THEN "match" ELSE race
                   /\ lateWork' = (lateWork \/ (killCalls > 0 /\ (new.tested \/ ~resolved)))
                   /\ UNCHANGED <<lineCount, proc, uncaught, spawned>>
    /\ UNCHANGED <<reqVars, parVars, timerVars, resVars, errCount, errChunks>>

\* ------------------------------------------------------ stderr listeners
\* child.stderr.on("data", ...): getMacLogs and getSimulatorLogs tag the
\* chunk, getDeviceLogs tags it unless it mentions "waiting", getLogsByLevel
\* drops it, searchLogs has no listener, the streams and watchForPattern
\* append it as it is.
onStderrDropsAll(o, out, data) == out

onStderr(o, out, data) ==
    CASE o \in {"getMacLogs", "getSimulatorLogs"} -> out \o <<"[stderr] ">> \o data
      [] o = "getDeviceLogs" ->
            IF ~includes(data, <<"waiting">>) THEN out \o <<"[stderr] ">> \o data ELSE out
      [] o \in {"getLogsByLevel", "searchLogs"} -> out
      [] OTHER -> out \o data

StderrData ==
    /\ Listening /\ ~uncaught
    /\ proc \in {"running", "exited"}
    /\ errCount < MaxErr
    /\ \E data \in ErrChunks :
         /\ output' = onStderr(op, output, data)
         /\ lateWork' = (lateWork \/ (killCalls > 0 /\ ~resolved /\ output' # output))
         /\ errChunks' = Append(errChunks, data)
    /\ errCount' = errCount + 1
    /\ UNCHANGED <<reqVars, parVars, procVars, timerVars, resVars, lineCount, found,
                   matchedLine, emitted, race, outputAtMatch>>

\* ------------------------------------------------- close, error and timer
ErrMessage == <<"spawn ENOENT">>

TimeoutMarker == <<LF, LF, "Timeout reached without finding pattern.">>

\* The text child.on("close", ...) resolves with in the capped operations.
closeText(o, out) ==
    CASE o = "getMacLogs" -> OrText(out, <<"No logs found">>)
      [] o = "getSimulatorLogs" -> OrText(out, <<"No logs found for simulator ">> \o subject)
      [] o = "searchLogs" -> OrText(out, <<"No logs matching \"">> \o pattern \o <<"\" found">>)
      [] OTHER -> OrText(out, <<"No ">> \o subject \o <<" logs found">>)

onCloseStreamsToo(o, out) ==
    IF o = "watchForPattern"
    THEN <<[found |-> found, matchedLine |-> matchedLine, allOutput |-> out]>>
    ELSE <<StringResult(OrText(out, <<"No logs found">>))>>

onCloseMarksTimeout(o, out) ==
    CASE o \in {"getMacLogs", "getSimulatorLogs", "searchLogs", "getLogsByLevel"} ->
            <<StringResult(closeText(o, out))>>
      [] o = "watchForPattern" ->
            <<[found |-> found, matchedLine |-> matchedLine,
               allOutput |-> out \o TimeoutMarker]>>
      [] OTHER -> <<>>

\* What child.on("close", ...) resolves with (<<>>: the function has no
\* such listener: getDeviceLogs and the two streams).
onClose(o, out) ==
    CASE o \in {"getMacLogs", "getSimulatorLogs", "searchLogs", "getLogsByLevel"} ->
            <<StringResult(closeText(o, out))>>
      [] o = "watchForPattern" ->
            <<[found |-> found, matchedLine |-> matchedLine, allOutput |-> out]>>
      [] OTHER -> <<>>

\* What child.on("error", ...) resolves with.
onError(o) ==
    CASE o = "watchForPattern" ->
            [found |-> FALSE, matchedLine |-> <<>>, allOutput |-> <<"Error: ">> \o ErrMessage]
      [] o = "getDeviceLogs" ->
            StringResult(<<"Error: ">> \o ErrMessage
                \o <<LF, LF, "Make sure the device is connected and trusted.">>)
      [] OTHER -> StringResult(<<"Error: ">> \o ErrMessage)

\* The text the timer callback resolves with in the capped operations and
\* the streams.
timeoutTextOnly(o, out) ==
    IF o = "getSimulatorLogs" THEN <<"Timeout waiting for simulator logs">>
    ELSE <<"Timeout">>

timeoutTextErrorIfEmpty(o, out) == OrText(out, <<"Error: ", "no output">>)

timeoutText(o, out) ==
    CASE o \in {"getMacLogs", "searchLogs", "getLogsByLevel"} -> OrText(out, <<"Timeout">>)
      [] o = "getSimulatorLogs" -> OrText(out, <<"Timeout waiting for simulator logs">>)
      [] o = "getDeviceLogs" -> OrText(out, <<"No logs captured from device ">> \o subject)
      [] o = "streamSimulatorLogs" ->
            OrText(out, <<"No logs captured from simulator ">> \o subject)
      [] OTHER -> OrText(out, <<"No logs captured during stream">>)

onTimeoutDropsOutput(o, out) ==
    IF o = "watchForPattern"
    THEN [found |-> FALSE, matchedLine |-> <<>>, allOutput |-> TimeoutMarker]
    ELSE StringResult(timeoutText(o, out))

\* What the timer callback resolves with.
onTimeout(o, out) ==
    IF o = "watchForPattern"
    THEN [found |-> FALSE, matchedLine |-> <<>>, allOutput |-> out \o TimeoutMarker]
    ELSE StringResult(timeoutText(o, out))

\* Whether the timer callback kills the child and resolves: watchForPattern
\* does both only if (!found), the others always.
TimerActsAlways(o) == TRUE

TimerActs(o) == o # "watchForPattern" \/ ~found

\* The child ends on its own or because of a signal; a child may also ignore
\* SIGTERM and never end.
ProcExit ==
    /\ proc = "running" /\ ~uncaught
    /\ proc' = "exited"
    /\ UNCHANGED <<reqVars, parVars, killed, killCalls, uncaught, spawned, bufVars,
                   timerVars, resVars, histVars>>

\* 'close': the child has ended and its stdio streams are closed.  It also
\* follows 'error' when the child could not be spawned.
ChildClose ==
    /\ proc \in {"exited", "failed"} /\ ~uncaught
    /\ proc' = "closed"
    /\ IF Listening /\ onClose(op, output) # <<>>
       THEN Resolve(req, onClose(op, output)[1], "close", "closed", clock)
       ELSE UNCHANGED resVars
    /\ UNCHANGED <<reqVars, parVars, killed, killCalls, uncaught, spawned, bufVars,
                   timerVars, histVars>>

\* 'error': the child could not be spawned.  The event is emitted on the
\* next tick, before any timer or I/O callback; without a listener it is an
\* uncaught exception.
ChildError ==
    /\ proc = "failing"
    /\ proc' = "failed"
    /\ IF Listening
       THEN /\ Resolve(req, onError(op), "error", "failed", clock)
            /\ UNCHANGED uncaught
       ELSE /\ uncaught' = TRUE
            /\ UNCHANGED resVars
    /\ UNCHANGED <<reqVars, parVars, killed, killCalls, spawned, bufVars, timerVars,
                   histVars>>

\* The setTimeout callback.  The clock has two instants that matter: 0, at
\* which everything before the timer happens, and the moment the timer
\* fires.
TimerFire ==
    /\ timer = "armed" /\ proc # "failing" /\ ~uncaught
    /\ timer' = "fired"
    /\ clock' = TimerDelay(delay)
    /\ race' = IF race = "none" THEN "timer" ELSE race
    /\ IF TimerActs(op)
       THEN /\ killCalls' = killCalls + 1
            /\ killed' = kill(proc, killed)
            /\ Resolve(req, onTimeout(op, output), "timer", proc, clock')
       ELSE UNCHANGED <<killCalls, killed, resVars>>
    /\ UNCHANGED <<reqVars, parVars, proc, uncaught, spawned, bufVars, delay, emitted,
                   errCount, errChunks, outputAtMatch, lateWork>>

\* ------------------------------------------------------- files on the disk
\* os.homedir(), as the segments of the path.
homedir == <<"Users", "u">>

\* path.normalize on an absolute path: "." and empty segments go, ".." takes
\* the segment before it away (at the root there is none to take).
RECURSIVE normalize(_, _)
normalize(rest, done) ==
    IF rest = <<>> THEN done
    ELSE IF Head(rest) \in {".", ""} THEN normalize(Tail(rest), done)
    ELSE IF Head(rest) = ".."
         THEN normalize(Tail(rest), IF done = <<>> THEN done
                                    ELSE SubSeq(done, 1, Len(done) - 1))
    ELSE normalize(Tail(rest), Append(done, Head(rest)))

\* path.join(base, rel): the segments one after the other, normalized.
join(base, rel) == normalize(base \o rel, <<>>)

\* The segments as text, with "/" between them.
RECURSIVE relText(_)
relText(segments) ==
    IF segments = <<>> THEN <<>>
    ELSE <<Head(segments)>> \o (IF Len(segments) > 1 THEN <<"/">> ELSE <<>>)
            \o relText(Tail(segments))

\* An absolute path as text.
pathText(path) == <<"/">> \o relText(path)

\* The files on the disk that the calls may meet.
Files ==
    { [path |-> homedir \o <<"Library", "Logs", "DiagnosticReports", "a.crash">>,
       content |-> <<"user a">>],
      [path |-> <<"Library", "Logs", "DiagnosticReports", "a.crash">>,
       content |-> <<"system a">>],
      [path |-> <<"Library", "Logs", "DiagnosticReports", "b.crash">>,
       content |-> <<"system b">>],
      [path |-> homedir \o <<"Library", "Logs", "secret.txt">>,
       content |-> <<"secret">>] }

\* readFile(path, "utf-8"): <<content>>, or <<>> when it throws.
readFile(path) ==
    LET hit == {f \in Files : f.path = path} IN
    IF hit = {} THEN <<>> ELSE <<(CHOOSE f \in hit : TRUE).content>>

\* The handler returned text and left the file system as d; no engine
\* function with a child ran.
Respond(r, text, d) ==
    /\ req' = r
    /\ response' = text
    /\ disk' = d
    /\ UNCHANGED <<hasIdevicesyslog, callVars, parVars, procVars, bufVars, timerVars,
                   histVars, resolved, result, resolvedBy, resolvedAt, procAtResolve,
                   outputAtResolve>>

exportDir == join(homedir, <<"Desktop", "ConsoleMCP-Exports">>)

\* The file exportLogs writes: its path and its content.
exportLogs(logs, filename, format) ==
    LET defaultFilename == <<IF format = "json" THEN "logs-<timestamp>.json"
                             ELSE "logs-<timestamp>.txt">>
        finalFilename == IF filename = <<>> \/ filename[1] = <<>> THEN defaultFilename
                         ELSE filename[1]
        NotBlank(l) == trim(l) # <<>>
        lines == SelectSeq(split(logs), NotBlank)
    IN  [path |-> join(exportDir, finalFilename),
         content |->
            IF format = "json"
            THEN <<"{exportedAt: ", "<now>", ", lineCount: ", ToString(Len(lines)),
                   ", logs: [">> \o FlattenChunks(lines) \o <<"]}">>
            ELSE <<"# Console MCP Log Export", LF, "# Exported: ", "<now>", LF, LF>>
                    \o logs]

crashDirs ==
    << join(homedir, <<"Library", "Logs", "DiagnosticReports">>),
       <<"Library", "Logs", "DiagnosticReports">> >>

\* readCrashReport: the first of the directories in which readFile of the
\* joined path succeeds gives the content.
RECURSIVE readCrashReport(_, _)
readCrashReport(dirs, filename) ==
    IF dirs = <<>>
    THEN [read |-> <<>>,
          content |-> <<"Crash report \"">> \o relText(filename) \o <<"\" not found.">>]
    ELSE LET filePath == join(Head(dirs), filename)
             content == readFile(filePath)
         IN  IF content # <<>> THEN [read |-> <<filePath>>, content |-> content[1]]
             ELSE readCrashReport(Tail(dirs), filename)

OptLogs == {<<>>, << <<>> >>, << <<"a", LF, LF>> >>}
OptFilename == {<<>>, << <<>> >>, << <<"a.crash">> >>, << <<"b.crash">> >>, << <<"c.crash">> >>,
                << <<"..", "secret.txt">> >>}
OptFormat == {<<>>, <<"json">>}

\* writeFile may throw (no permission, no such directory); the handler's
\* catch turns the exception into text.
export_logs ==
    /\ req = NoRequest
    /\ \E l \in OptLogs, f \in OptFilename, fm \in OptFormat, written \in BOOLEAN :
         LET r == [Request("export_logs") EXCEPT !.logs = l, !.filename = f, !.format = fm]
             format == IF fm = <<>> THEN "txt" ELSE fm[1]
         IN  IF l = <<>> \/ l[1] = <<>>
             THEN Reject(r, <<"Error: ", "logs content", " is required">>)
             ELSE LET file == exportLogs(l[1], f, format) IN
                  IF written
                  THEN Respond(r, <<"Logs exported to:", LF>> \o pathText(file.path),
                               [disk EXCEPT !.written = @ \cup {file}])
                  ELSE Respond(r, <<"Error: ", "Error: EACCES: permission denied, open '">>
                                      \o pathText(file.path) \o <<"'">>, disk)

read_crash_report ==
    /\ req = NoRequest
    /\ \E f \in OptFilename :
         LET r == [Request("read_crash_report") EXCEPT !.filename = f] IN
         IF f = <<>> \/ f[1] = <<>>
         THEN Reject(r, <<"Error: ", "filename", " is required",
                        ". Use get_crash_logs first to find crash reports.">>)
         ELSE LET got == readCrashReport(crashDirs, f[1]) IN
              Respond(r, <<"Crash Report: ">> \o relText(f[1]) \o <<LF, LF>> \o got.content,
                      [disk EXCEPT !.read = @ \o got.read])

\* switch (name) ... default:
unknown_tool ==
    /\ req = NoRequest
    /\ Respond(Request("bogus"), <<"Unknown tool: ", "bogus">>, disk)

\* ---------------------------------------------------------- specification
Next ==
    \/ get_logs
    \/ get_logs_by_level
    \/ get_device_logs
    \/ get_simulator_logs
    \/ stream_logs
    \/ stream_simulator_logs
    \/ search_logs
    \/ watch_for_pattern
    \/ export_logs
    \/ read_crash_report
    \/ unknown_tool
    \/ StdoutData
    \/ StderrData
    \/ ProcExit
    \/ ChildClose
    \/ ChildError
    \/ TimerFire

Spec == Init /\ [][Next]_vars

\* The event loop runs a queued 'error' event and a due timer callback, and
\* emits 'close' for a child that has ended.  Nothing makes a child end.
FairSpec == Spec /\ WF_vars(ChildError) /\ WF_vars(TimerFire) /\ WF_vars(ChildClose)

\* ------------------------------------------------------------ properties
InFlight == op # "none"

\* C1: in every acquisition operation and for every terminal condition, the
\* child the call spawned is no longer running at the moment the call's
\* promise resolves.
CE_C1_NoChildRunsAtResolve == resolved => procAtResolve # "running"

\* C2: searchLogs / watchForPattern called with useRegex and a pattern that
\* does not compile return the invalid-pattern result without any external
\* process having been spawned.
CE_C2_InvalidRegexSpawnsNothing == resolvedBy = "regex" => spawned = 0

\* C3: every acquisition call eventually resolves, whatever the child does
\* (it may never exit, also after being signalled), given that the timer
\* fires.
CE_C3_EveryCallResolves == InFlight ~> resolved

\* C4: a call produces exactly one result: once the promise has resolved, no
\* later event (timer, close, error, late data) changes the value the caller
\* received.
T_C4_ResultSettlesOnce ==
    [][resolved => (resolved' /\ result' = result /\ response' = response)]_vars

\* C4 witness: getMacLogs resolved on the timer, data arrived afterwards and
\* the child then closed, so the close listener called resolve() with a
\* text that differs from the result.
W_C4_LateCloseIgnored ==
    /\ op = "getMacLogs" /\ resolvedBy = "timer" /\ proc = "closed"
    /\ closeText(op, output) # result.text

\* C5: in watchForPattern the first of {a line matches, the timer fires}
\* decides: the timer first gives found = false even if a matching line
\* arrives later, a match first gives found = true even if the timer fires
\* before the child closes.
T_C5_FirstOfMatchAndTimerWins ==
    (op = "watchForPattern" /\ resolved /\ resolvedBy # "regex") =>
        /\ race = "timer" => ~result.found
        /\ race = "match" => result.found

\* C5 witness: the timer fired first, a matching line arrived afterwards
\* (found is set), and the result still says found = false.
W_C5_LateMatchLoses ==
    /\ op = "watchForPattern" /\ race = "timer" /\ found
    /\ resolved /\ ~result.found

\* The lines of a text: its pieces between line feeds, and the unterminated
\* rest if there is one.
LinesOf(s) ==
    LET ps == split(s) IN
    IF ps[Len(ps)] = <<>> THEN SubSeq(ps, 1, Len(ps) - 1) ELSE ps

\* The first of the lines that the matcher accepts (<<>> if none does).
FirstMatch(lines) ==
    LET idx == {i \in 1..Len(lines) : matcher(useRegex, pattern, lines[i])} IN
    IF idx = {} THEN <<>> ELSE lines[CHOOSE i \in idx : \A j \in idx : i <= j]

\* C6: when watchForPattern returns found = true, matchedLine is the first
\* complete line the producer emitted that satisfies the matcher, however
\* the output was divided into chunks.
CE_C6_MatchedLineIsFirstMatchingLine ==
    (op = "watchForPattern" /\ resolved /\ result.found) =>
        result.matchedLine = FirstMatch(LinesOf(emitted))

\* C7: once kill() has been called, nothing that arrives afterwards is added
\* to the output that is returned or handed to the matcher; the allOutput
\* returned with found = true ends with the matched line.
CE_C7_NothingProcessedAfterKill ==
    /\ ~lateWork
    /\ (op = "watchForPattern" /\ resolved /\ result.found) =>
           result.allOutput = outputAtMatch

\* The moment a timer armed with `ms` fires.
Deadline(ms) == IF ms >= 1 THEN ms ELSE 1

\* C8: when no line matches and the producer keeps running, watchForPattern
\* resolves when timeoutSeconds have elapsed and not earlier, with
\* found = false and the output collected up to that moment (followed by the
\* timeout marker), and kill() is called at that moment.
T_C8_WatchTimesOutAtDeadline ==
    (op = "watchForPattern" /\ Listening) =>
        /\ delay = WatchTimeoutSeconds(req) * 1000
        /\ (timer = "fired" /\ race = "timer") => resolved
        /\ (resolved /\ procAtResolve = "running") =>
               /\ resolvedBy = "timer"
               /\ resolvedAt = Deadline(delay) /\ resolvedAt >= delay
        /\ resolvedBy = "timer" =>
               /\ result = [found |-> FALSE, matchedLine |-> <<>>,
                            allOutput |-> outputAtResolve \o TimeoutMarker]
               /\ killCalls >= 1
               /\ procAtResolve = "running" => killed

\* C8 witness: lines were emitted, none matched, the child was still running
\* when the timer fired, and the call resolved then with the partial output.
W_C8_TimedOutWithPartialOutput ==
    /\ op = "watchForPattern" /\ resolvedBy = "timer" /\ procAtResolve = "running"
    /\ ~found /\ emitted # <<>> /\ Len(result.allOutput) > Len(TimeoutMarker)

\* C9: a timed stream with duration D kills its child and resolves when D
\* has elapsed, even if the child would run forever, and does not resolve
\* before D when the child ends on its own.
T_C9_StreamRunsForItsDuration ==
    (op \in StreamOps /\ Listening) =>
        /\ delay = StreamDurationSeconds(req) * 1000
        /\ timer = "fired" => (resolved /\ killCalls >= 1)
        /\ (timer = "armed" /\ resolvedBy # "error") => ~resolved
        /\ (resolved /\ resolvedBy # "error") =>
               /\ resolvedBy = "timer"
               /\ resolvedAt = Deadline(delay) /\ resolvedAt >= delay
               /\ procAtResolve = "running" => killed
               /\ result.text = timeoutText(op, outputAtResolve)

\* C9 witness: the child of a stream ended on its own and closed before the
\* duration was over, and the call is still pending.
W_C9_StreamOutlivesItsChild ==
    /\ op \in StreamOps /\ proc = "closed" /\ timer = "armed" /\ ~resolved
    /\ output # <<>>

\* C10: kill() is idempotent: called on a child that has already ended, or a
\* second time, it raises nothing and changes neither the state of the child
\* nor the result of the call.
T_C10_KillIsIdempotent ==
    [][killCalls' > killCalls =>
          /\ proc' = proc
          /\ ~uncaught'
          /\ proc # "running" => killed' = killed
          /\ killed => killed'
          /\ resolved => (result' = result /\ response' = response)]_vars

\* C10 witness: watchForPattern's timer killed the running child and
\* resolved; a matching line arrived afterwards and kill() was called again.
W_C10_SecondKill ==
    /\ op = "watchForPattern" /\ killCalls = 2 /\ killed
    /\ resolvedBy = "timer" /\ found

\* ------------------------------------------------ the bounded collector
\* C11: in a capped operation called with maxLines = N >= 0 the number of
\* lines retained never exceeds N whatever stdout chunks arrive, the lines
\* retained are the lines of the text collected from stdout, and a chunk
\* that arrives once N lines are retained changes neither the text nor the
\* count.
T_C11_CapNeverExceeded ==
    [][(op' \in CappedOps /\ maxLines' >= 0) =>
          /\ lineCount' <= maxLines'
          /\ errCount' = 0 => Len(LinesOf(output')) = lineCount'
          /\ (op \in CappedOps /\ lineCount = maxLines /\ emitted' # emitted) =>
                 (output' = output /\ lineCount' = lineCount)]_vars

\* C11 witness: getMacLogs called with maxLines = 1 retained its one line
\* and dropped what stdout delivered after it.
W_C11_LineDroppedAtCap ==
    /\ op = "getMacLogs" /\ maxLines = 1 /\ lineCount = maxLines
    /\ errCount = 0 /\ Len(emitted) > Len(output)

\* The number of line feeds in a text.
CountLF(s) == Cardinality({i \in 1..Len(s) : s[i] = LF})

\* The lines, each followed by one line feed.
RECURSIVE Join(_)
Join(lines) ==
    IF lines = <<>> THEN <<>> ELSE Head(lines) \o <<LF>> \o Join(Tail(lines))

\* The first n of the lines.
Take(lines, n) == SubSeq(lines, 1, Min(n, Len(lines)))

\* The lines the matcher of the call accepts, in order.
Matching(lines) ==
    LET Test(l) == matcher(useRegex, pattern, l) IN SelectSeq(lines, Test)

\* C12: in a capped operation the lines of stderr count toward maxLines
\* together with the lines of stdout: the text returned never holds more
\* than maxLines lines.
CE_C12_StderrCountsTowardCap ==
    (op \in CappedOps /\ resolved /\ resolvedBy \in {"close", "timer"}) =>
        CountLF(result.text) <= maxLines

\* C13: the lines processed do not depend on how stdout was divided into
\* chunks: what was retained, counted and matched is what one chunk carrying
\* the whole of stdout would have given.
CE_C13_ChunkingDoesNotShow ==
    (errCount = 0 /\ emitted # <<>>) =>
        /\ op \in CappedOps =>
               LET one == retain(op, split(emitted), <<>>, 0, maxLines) IN
               output = one.output /\ lineCount = one.lineCount
        /\ op = "watchForPattern" =>
               LET one == watchLines(split(emitted),
                              [output |-> <<>>, found |-> FALSE, matchedLine |-> <<>>,
                               kills |-> 0, atMatch |-> <<>>, tested |-> FALSE]) IN
               /\ output = one.output
               /\ found = one.found
               /\ matchedLine = one.matchedLine

\* C14: a capped fetch whose child wrote k lines to stdout and nothing to
\* stderr returns the first min(maxLines, k) of them in arrival order, each
\* followed by exactly one line feed.
CE_C14_ReturnsFirstLines ==
    (op \in {"getMacLogs", "getLogsByLevel", "getSimulatorLogs"}
        /\ errCount = 0 /\ emitted # <<>> /\ resolvedBy = "close") =>
        result.text = Join(Take(LinesOf(emitted), maxLines))

\* C15: searchLogs retains the first maxLines lines of stdout that satisfy
\* the matcher, in arrival order, and nothing else: a line that does not
\* match is dropped and uses none of the budget.
CE_C15_SearchKeepsFirstMatches ==
    (op = "searchLogs" /\ resolvedBy = "close" /\ emitted # <<>>) =>
        /\ outputAtResolve = Join(Take(Matching(LinesOf(emitted)), maxLines))
        /\ lineCount = Len(Take(Matching(LinesOf(emitted)), maxLines))

\* ------------------------------------------------------------ the matcher
\* The characters of the patterns and lines a matcher is tried on.
ProbeAlphabet == {"a", "A", "b"}

ProbeTexts == UNION {[1..k -> ProbeAlphabet] : k \in 0..MaxProbeLen}

\* const matcher = useRegex ? (line) => regex.test(line)
\*                          : (line) => line.toLowerCase().includes(queryLower)
\* (a pattern that does not compile builds no matcher).
BuildMatcher ==
    /\ ~probe.built
    /\ \E re \in BOOLEAN, p \in ProbeTexts \cup {<<"[">>} :
         /\ re => RegExpCompiles(p)
         /\ probe' = [NoProbe EXCEPT !.built = TRUE, !.useRegex = re, !.pattern = p]
    /\ UNCHANGED <<req, hasIdevicesyslog, crash, calls, activeStreams, disk, parVars,
                   procVars, bufVars, timerVars, resVars, histVars>>

\* matcher(line), on one line after another.
TestLine ==
    /\ probe.built /\ probe.tested < MaxTests
    /\ \E line \in ProbeTexts :
         probe' = [probe EXCEPT !.line = line,
                                !.answer = matcher(probe.useRegex, probe.pattern, line),
                                !.tested = @ + 1]
    /\ UNCHANGED <<req, hasIdevicesyslog, crash, calls, activeStreams, disk, parVars,
                   procVars, bufVars, timerVars, resVars, histVars>>

MatcherNext == BuildMatcher \/ TestLine

MatcherSpec == Init /\ [][MatcherNext]_vars

\* Two characters that are the same letter, whatever their case.
SameLetter(c, d) == c = d \/ {c, d} \in {{"a", "A"}, {"b", "B"}, {"e", "E"}}

\* p occurs in line at some position, letter for letter.
ContainsIgnoringCase(line, p) ==
    \E i \in 0..(Len(line) - Len(p)) : \A j \in 1..Len(p) : SameLetter(line[i + j], p[j])

\* C16: in plain mode the matcher accepts a line exactly when the line
\* contains the pattern as a substring, letter case ignored, whatever lines
\* it was asked about before.
T_C16_PlainMatcherIsSubstringIgnoringCase ==
    (probe.tested > 0 /\ ~probe.useRegex) =>
        (probe.answer <=> ContainsIgnoringCase(probe.line, probe.pattern))

\* C16 witness: the second line a plain matcher is asked about differs from
\* its pattern in the case of both letters, and is accepted.
W_C16_AcceptedAcrossCase ==
    /\ ~probe.useRegex /\ probe.tested = 2 /\ probe.answer
    /\ probe.pattern = <<"A", "a">> /\ probe.line = <<"a", "A">>

\* ---------------------------------------------------------------- errors
\* The text of an engine result.
TextOf(v) == IF "allOutput" \in DOMAIN v THEN v.allOutput ELSE v.text

\* C17: a pattern that does not compile raises nothing: searchLogs and
\* watchForPattern resolve with a value that names the invalid pattern, and
\* the reply of the tool reports an invalid pattern, not a pattern that was
\* not found.
CE_C17_InvalidRegexReportedAsInvalid ==
    resolvedBy = "regex" =>
        /\ includes(TextOf(result), pattern)
        /\ response[1] \in {"Invalid regex pattern: ", "Invalid regex: "}
        /\ \A i \in 1..Len(response) : response[i] # "\" not found within "

\* C18: when the command cannot be started the child emits 'error' and the
\* call resolves with an error result that carries the message of the
\* error; no exception escapes and the command is not started again.
CE_C18_SpawnFailureResolvesWithError ==
    /\ ~uncaught
    /\ proc = "failed" =>
           /\ resolvedBy = "error"
           /\ includes(TextOf(result), ErrMessage)
           /\ spawned = 1

\* ---------------------------------------------------------------- stderr
\* The chunks of stderr that the text of a call resolved in this step
\* through 'close' or the timer has to hold: all that arrived before.
ResolvesNow == ~resolved /\ resolved' /\ resolvedBy' \in {"close", "timer"}

Captures(o, chunk) ==
    \/ o \in {"getMacLogs", "getSimulatorLogs", "watchForPattern"} \cup StreamOps
    \/ o = "getDeviceLogs" /\ ~includes(chunk, <<"waiting">>)

Tagged(text) ==
    \A i \in 1..Len(text) :
        text[i] \in {"e", "waiting"} => (i > 1 /\ text[i - 1] = "[stderr] ")

\* C20: every piece of stderr content in the text an operation returns
\* carries the tag that tells it from stdout content.
CE_C20_StderrIsTagged ==
    (resolved /\ resolvedBy \in {"close", "timer"}) => Tagged(TextOf(result))

\* ------------------------------------------------------ terminal conditions
\* The capped operations that end on 'close' as well as on their timer.
BoundedFetches == {"getMacLogs", "getLogsByLevel", "getSimulatorLogs", "searchLogs"}

\* C21: when the timer of a bounded fetch fires before the child closed,
\* the call kills the child and returns the text collected so far if there
\* is any, and a timeout message only if nothing was collected.
T_C21_TimerReturnsCollectedText ==
    (op \in BoundedFetches /\ resolvedBy = "timer") =>
        /\ killCalls = 1
        /\ procAtResolve = "running" => killed
        /\ outputAtResolve # <<>> => result.text = outputAtResolve
        /\ outputAtResolve = <<>> =>
               result.text \in {<<"Timeout">>, <<"Timeout waiting for simulator logs">>}

\* C21 witness: the timer of searchLogs fired while the child was running,
\* with one matching line collected.
W_C21_TimerWithTextCollected ==
    /\ op = "searchLogs" /\ resolvedBy = "timer" /\ procAtResolve = "running"
    /\ lineCount = 1 /\ result.text = <<"a", LF>>

\* C22: reaching the cap neither kills the child nor settles the call: a
\* stdout chunk of a capped operation sends no signal and leaves the promise
\* as it was, and kill() is called by the timer only.
T_C22_CapStopsNothing ==
    [][(op \in CappedOps) =>
          /\ emitted' # emitted =>
                 /\ killCalls' = killCalls /\ killed' = killed /\ proc' = proc
                 /\ resolved' = resolved /\ result' = result
          /\ killCalls' > killCalls => (timer' = "fired")]_vars

\* C22 witness: getLogsByLevel is at its cap of one line, more output came
\* after it, the child runs and the call is pending.
W_C22_PendingAtCap ==
    /\ op = "getLogsByLevel" /\ lineCount = maxLines /\ Len(emitted) > Len(output)
    /\ proc = "running" /\ killCalls = 0 /\ ~resolved /\ timer = "armed"

\* C23: the result tells which terminal condition produced it: two runs of
\* one operation that end by different conditions return results the caller
\* can tell apart.  Here the two runs share everything up to a state where
\* the call is pending: in one the child closes next, in the other the timer
\* fires next.
CE_C23_ResultTellsHowTheCallEnded ==
    (Listening /\ ~resolved /\ ~uncaught /\ timer = "armed" /\ TimerActs(op)
        /\ proc \in {"running", "exited"} /\ onClose(op, output) # <<>>) =>
        Reply(req, onClose(op, output)[1]) # Reply(req, onTimeout(op, output))

\* C24: whatever the caller supplies, the time a call runs for is inside
\* its range: above 0 and at most 30 s for the streams (10 s when omitted),
\* above 0 and at most 60 s for watch_for_pattern (30 s when omitted), above
\* 0 and at most 10 s for get_device_logs.
CE_C24_DurationWithinRange ==
    timer # "none" =>
        /\ op \in StreamOps =>
               /\ delay > 0 /\ delay <= StreamMaxSeconds * 1000
               /\ req.durationSeconds = <<>> => delay = StreamDefaultSeconds * 1000
        /\ op = "watchForPattern" =>
               /\ delay > 0 /\ delay <= WatchMaxSeconds * 1000
               /\ req.timeoutSeconds = <<>> => delay = WatchDefaultSeconds * 1000
        /\ op = "getDeviceLogs" => (delay > 0 /\ delay <= DeviceMaxCollectMs)

\* C25: the number of log lines get_logs, get_logs_by_level,
\* get_simulator_logs and search_logs return never exceeds the maxLines the
\* caller supplied, 0 included, nor the default when none was supplied.
CE_C25_ReturnsAtMostMaxLinesSupplied ==
    (req.tool \in {"get_logs", "get_logs_by_level", "get_simulator_logs", "search_logs"}
        /\ resolvedBy \in {"close", "timer"} /\ errCount = 0) =>
        CountLF(result.text) <=
            (IF req.maxLines # <<>> THEN req.maxLines[1]
             ELSE IF req.tool = "search_logs" THEN SearchDefaultMaxLines
             ELSE DefaultMaxLines)

\* C26: a timed stream that captured nothing resolves with a 'no logs
\* captured' text, which is also the reply, and not with an error result.
T_C26_EmptyStreamIsNotAnError ==
    (op \in StreamOps /\ resolvedBy = "timer" /\ outputAtResolve = <<>>) =>
        /\ result.text[1] \in {"No logs captured during stream",
                                "No logs captured from simulator "}
        /\ \A i \in 1..Len(result.text) : result.text[i] # "Error: "
        /\ response = result.text

\* C26 witness: the duration of stream_logs ran out with nothing on stdout
\* or stderr.
W_C26_StreamCapturedNothing ==
    /\ op = "streamDeviceLogs" /\ resolvedBy = "timer"
    /\ emitted = <<>> /\ errCount = 0 /\ response # <<>>

\* ---------------------------------------------------------------- targets
\* Two texts that are the same but for the case of their letters.
SameIgnoringCase(s, t) ==
    Len(s) = Len(t) /\ \A i \in 1..Len(s) : SameLetter(s[i], t[i])

\* The entries of a listing that an identifier names, by UDID or by name.
Named(list, id) ==
    {i \in 1..Len(list) : list[i].udid = id \/ SameIgnoringCase(list[i].name, id)}

\* C27: get_device_logs and get_simulator_logs called with an identifier
\* that names no known device / simulator reply with a not-found message
\* and start no process.
T_C27_UnknownTargetIsRejected ==
    /\ (req.tool = "get_device_logs" /\ req.device \notin {<<>>, << <<>> >>}
           /\ Named(Devices, req.device[1]) = {}) =>
           /\ spawned = 0 /\ proc = "none" /\ timer = "none"
           /\ SubSeq(response, 1, Len(req.device[1]) + 2) =
                  <<"Device \"">> \o req.device[1] \o <<"\" not found.">>
    /\ (req.tool = "get_simulator_logs" /\ req.simulator \notin {<<>>, << <<>> >>}
           /\ Named(Simulators, req.simulator[1]) = {}) =>
           /\ spawned = 0 /\ proc = "none" /\ timer = "none"
           /\ SubSeq(response, 1, Len(req.simulator[1]) + 2) =
                  <<"Simulator \"">> \o req.simulator[1] \o <<"\" not found.">>

\* C27 witness: get_device_logs was called for "x", which no device is.
W_C27_UnknownDevice ==
    /\ req.tool = "get_device_logs" /\ req.device = << <<"x">> >>
    /\ response # <<>> /\ spawned = 0

\* C28: getSimulatorLogs and streamSimulatorLogs spawn only for a simulator
\* that is Booted; for one that is unknown or not booted they resolve at
\* once with a message, spawn nothing and arm no timer.
T_C28_OnlyBootedSimulatorsAreRead ==
    (op \in {"getSimulatorLogs", "streamSimulatorLogs"}) =>
        LET hits == Named(Simulators, req.simulator[1]) IN
        IF \E i \in hits : Simulators[i].state = "Booted"
        THEN spawned = 1
        ELSE /\ spawned = 0 /\ proc = "none" /\ timer = "none"
             /\ resolved /\ resolvedBy = "precheck" /\ resolvedAt = 0
             /\ result.text[1] \in {"Simulator with identifier \"", "Simulator \""}

\* C28 witness: get_simulator_logs was called for the simulator that is
\* shut down.
W_C28_SimulatorNotBooted ==
    /\ op = "getSimulatorLogs" /\ req.simulator = << <<"s", "2">> >>
    /\ resolved /\ spawned = 0

\* ----------------------------------------------------------- crash reports
\* new Date() when getCrashLogs runs, in days.
Today == 10

\* The files a crash report directory may hold: a name, the day of the last
\* modification, and whether readFile succeeds on it.
CrashFiles ==
    { [name |-> <<"A", "-", ".crash">>, mtime |-> 9, readable |-> TRUE],
      [name |-> <<"a", ".ips">>, mtime |-> 8, readable |-> TRUE],
      [name |-> <<"b", ".diag">>, mtime |-> 2, readable |-> TRUE],
      [name |-> <<"a", ".crash", ".txt">>, mtime |-> 9, readable |-> TRUE],
      [name |-> <<"b", ".crash">>, mtime |-> 7, readable |-> FALSE] }

\* What readdir(dir) may return: files of different names, in any order.
Listings ==
    UNION {{l \in [1..k -> CrashFiles] : \A i, j \in 1..k : l[i] = l[j] => i = j}
              : k \in 0..MaxFiles}

\* file.match(/\.(crash|ips|diag)$/)
isReport(file) == file # <<>> /\ file[Len(file)] \in {".crash", ".ips", ".diag"}

\* file.split("-")[0] || file
processOf(file) ==
    LET idx == {i \in 1..Len(file) : file[i] = "-"}
        first == IF idx = {} THEN file
                 ELSE SubSeq(file, 1, (CHOOSE i \in idx : \A j \in idx : i <= j) - 1)
    IN  OrText(first, file)

\* The loop over the files of one directory, inside try { } catch { continue }:
\* a readFile that throws ends the loop over this directory, with the
\* reports pushed so far kept.
RECURSIVE scanFiles(_, _, _, _)
scanFiles(files, process, cutoffDate, reports) ==
    IF files = <<>> THEN reports
    ELSE LET file == Head(files) IN
         IF ~isReport(file.name)
         THEN scanFiles(Tail(files), process, cutoffDate, reports)
         ELSE IF process # <<>> /\ process[1] # <<>>
                 /\ ~includes(toLowerCase(file.name), toLowerCase(process[1]))
         THEN scanFiles(Tail(files), process, cutoffDate, reports)
         ELSE IF file.mtime < cutoffDate
         THEN scanFiles(Tail(files), process, cutoffDate, reports)
         ELSE IF ~file.readable
         THEN reports
         ELSE scanFiles(Tail(files), process, cutoffDate,
                  Append(reports, [filename |-> file.name,
                                   process |-> processOf(file.name),
                                   date |-> file.mtime]))

\* for (const dir of crashDirs) ...
RECURSIVE scanDirs(_, _, _, _)
scanDirs(dirs, process, cutoffDate, reports) ==
    IF dirs = <<>> THEN reports
    ELSE scanDirs(Tail(dirs), process, cutoffDate,
                  scanFiles(Head(dirs), process, cutoffDate, reports))

\* reports.sort((a, b) => b.date.getTime() - a.date.getTime()): a stable
\* sort, newest first.
RECURSIVE insertByDate(_, _)
insertByDate(sorted, r) ==
    IF sorted = <<>> THEN <<r>>
    ELSE IF Head(sorted).date >= r.date THEN <<Head(sorted)>> \o insertByDate(Tail(sorted), r)
    ELSE <<r>> \o sorted

RECURSIVE sortByDate(_)
sortByDate(reports) ==
    IF reports = <<>> THEN <<>>
    ELSE insertByDate(sortByDate(SubSeq(reports, 1, Len(reports) - 1)),
                      reports[Len(reports)])

\* Array.prototype.slice(0, n)
slice(list, n) ==
    IF n >= 0 THEN SubSeq(list, 1, Min(n, Len(list)))
    ELSE SubSeq(list, 1, IF Len(list) + n > 0 THEN Len(list) + n ELSE 0)

\* The summary text built from the reports.
RECURSIVE summaryLines(_, _)
summaryLines(reports, i) ==
    IF reports = <<>> THEN <<>>
    ELSE <<ToString(i), ". ">> \o Head(reports).process \o <<LF, "   File: ">>
            \o Head(reports).filename \o <<LF, "   Date: ", ToString(Head(reports).date)>>
            \o (IF Len(reports) > 1 THEN <<LF, LF>> ELSE <<>>)
            \o summaryLines(Tail(reports), i + 1)

getCrashLogs(dirs, process, lastDays, maxReports) ==
    LET cutoffDate == Today - lastDays
        reports == sortByDate(scanDirs(dirs, process, cutoffDate, <<>>))
        limitedReports == slice(reports, maxReports)
        summary ==
            IF Len(limitedReports) = 0
            THEN IF process # <<>> /\ process[1] # <<>>
                 THEN <<"No crash reports found for \"">> \o process[1]
                          \o <<"\" in the last ", ToString(lastDays), " days.">>
                 ELSE <<"No crash reports found in the last ", ToString(lastDays), " days.">>
            ELSE <<"Found ", ToString(Len(reports)), " crash report(s)">>
                    \o (IF Len(reports) > maxReports
                        THEN <<" (showing ", ToString(maxReports), ")">> ELSE <<>>)
                    \o <<":", LF, LF>> \o summaryLines(limitedReports, 1)
    IN  [reports |-> limitedReports, summary |-> summary]

OptProcess == {<<>>, << <<"a">> >>}
OptLastDays == {<<>>, <<3>>}
OptMaxReports == {<<>>, <<1>>, <<2>>}

\* The get_crash_logs tool call, on the two directories as they are then.
get_crash_logs ==
    /\ ~crash.called
    /\ \E home \in Listings, system \in Listings,
          p \in OptProcess, ld \in OptLastDays, mr \in OptMaxReports :
         LET lastDays == OrNum(ld, DefaultLastDays)
             maxReports == OrNum(mr, DefaultMaxReports)
             got == getCrashLogs(<<home, system>>, p, lastDays, maxReports)
         IN  crash' = [called |-> TRUE, dirs |-> <<home, system>>, process |-> p,
                       lastDays |-> lastDays, maxReports |-> maxReports,
                       reports |-> got.reports, summary |-> got.summary]
    /\ UNCHANGED <<req, hasIdevicesyslog, probe, calls, activeStreams, disk, parVars,
                   procVars, bufVars, timerVars, resVars, histVars>>

CrashNext == get_crash_logs

CrashSpec == Init /\ [][CrashNext]_vars

\* The files of both directories, in the order they are read.
AllFiles == IF crash.dirs = <<>> THEN <<>> ELSE crash.dirs[1] \o crash.dirs[2]

\* A file that getCrashLogs is to report: a crash report by its name, of the
\* process asked for, modified in the last lastDays days, and readable.
Qualifies(file) ==
    /\ file.name[Len(file.name)] \in {".crash", ".ips", ".diag"}
    /\ crash.process # <<>> => ContainsIgnoringCase(file.name, crash.process[1])
    /\ file.mtime >= Today - crash.lastDays
    /\ file.readable

\* C30: getCrashLogs returns at most maxReports reports, newest first, each
\* of them a qualifying file, and they are the newest of all the files that
\* qualify: every qualifying file that is left out is no newer than any
\* report returned, and none is left out while fewer than maxReports are
\* returned.
CE_C30_NewestQualifyingReports ==
    crash.called =>
        LET got == crash.reports
            names == {got[i].filename : i \in 1..Len(got)}
            left == {i \in 1..Len(AllFiles) :
                        Qualifies(AllFiles[i]) /\ AllFiles[i].name \notin names}
        IN  /\ Len(got) <= crash.maxReports
            /\ \A i \in 1..(Len(got) - 1) : got[i].date >= got[i + 1].date
            /\ \A i \in 1..Len(got) :
                   \E j \in 1..Len(AllFiles) :
                       /\ Qualifies(AllFiles[j])
                       /\ AllFiles[j].name = got[i].filename
                       /\ AllFiles[j].mtime = got[i].date
            /\ \A i \in left : \A j \in 1..Len(got) : AllFiles[i].mtime <= got[j].date
            /\ left # {} => Len(got) = crash.maxReports

\* -------------------------------------------------------- concurrent calls
\* Two getMacLogs calls are served together: the handler awaits the promise
\* of each, and the listeners of both run on the one event loop, in any
\* order.
closureShared(i) == 1

\* The closure whose `output` and `lineCount` the listeners of call i read
\* and write: both are declared inside the promise executor of the call.
closureOf(i) == i

OtherVars == <<req, hasIdevicesyslog, probe, crash, disk, parVars, procVars, bufVars,
               timerVars, resVars, histVars>>

\* getMacLogs(...): spawn("log", args), listeners attached, timer armed.
CallStart(i) ==
    /\ calls[i].phase = "idle"
    /\ \E ml \in {1, DefaultMaxLines} :
         calls' = [calls EXCEPT ![i].phase = "running",
                                ![i].child = 1 + Cardinality({j \in Callers :
                                                    calls[j].phase # "idle"}),
                                ![i].maxLines = ml,
                                ![i].timer = "armed"]
    /\ UNCHANGED <<OtherVars, activeStreams>>

\* child.stdout.on("data", ...) of call i.
CallStdout(i) ==
    /\ calls[i].phase = "running"
    /\ Len(FlattenChunks(calls[i].chunks)) < MaxCallStream
    /\ \E data \in Chunks(MaxCallStream - Len(FlattenChunks(calls[i].chunks))) :
         LET k == closureOf(i)
             new == retain("getMacLogs", split(data), calls[k].output,
                           calls[k].lineCount, calls[i].maxLines)
         IN  calls' = [calls EXCEPT ![k].output = new.output,
                                    ![k].lineCount = new.lineCount,
                                    ![i].chunks = Append(@, data)]
    /\ UNCHANGED <<OtherVars, activeStreams>>

\* resolve(v) in a listener of call i.
CallResolve(c, v, by) ==
    IF c.resolved THEN c
    ELSE [c EXCEPT !.resolved = TRUE, !.result = v, !.resolvedBy = by,
                   !.chunksAtResolve = c.chunks]

\* The child of call i ends and child.on("close", ...) runs.
CallClose(i) ==
    /\ calls[i].phase = "running"
    /\ calls' = [calls EXCEPT ![i] =
                    CallResolve([@ EXCEPT !.phase = "closed"],
                                closeText("getMacLogs", calls[closureOf(i)].output),
                                "close")]
    /\ UNCHANGED <<OtherVars, activeStreams>>

\* The setTimeout callback of call i: child.kill(); resolve(output || "Timeout").
CallTimer(i) ==
    /\ calls[i].timer = "armed"
    /\ calls' = [calls EXCEPT ![i] =
                    CallResolve([@ EXCEPT !.timer = "fired",
                                          !.killed = kill(calls[i].phase, @)],
                                timeoutText("getMacLogs", calls[closureOf(i)].output),
                                "timer")]
    /\ UNCHANGED <<OtherVars, activeStreams>>

ConcurrentNext ==
    \E i \in Callers :
        CallStart(i) \/ CallStdout(i) \/ CallClose(i) \/ CallTimer(i)

ConcurrentSpec == Init /\ [][ConcurrentNext]_vars

\* What a getMacLogs call that runs alone has in `output` after the chunks.
RECURSIVE AloneOutput(_, _, _, _)
AloneOutput(chunks, out, cnt, max) ==
    IF chunks = <<>> THEN out
    ELSE LET new == retain("getMacLogs", split(Head(chunks)), out, cnt, max) IN
         AloneOutput(Tail(chunks), new.output, new.lineCount, max)

\* C29: calls that run together share nothing: each has a child of its own,
\* activeStreams is never written, and what a call returns is what it would
\* return alone on the chunks of its own child, however its events and the
\* events of the other call interleave.
T_C29_CallsShareNoState ==
    /\ activeStreams = {}
    /\ \A i, j \in Callers :
           (i # j /\ calls[i].phase # "idle" /\ calls[j].phase # "idle") =>
               calls[i].child # calls[j].child
    /\ \A i \in Callers :
           calls[i].resolved =>
               LET alone == AloneOutput(calls[i].chunksAtResolve, <<>>, 0,
                                        calls[i].maxLines) IN
               calls[i].result =
                   (IF alone # <<>> THEN alone
                    ELSE IF calls[i].resolvedBy = "close" THEN <<"No logs found">>
                    ELSE <<"Timeout">>)

\* C29 witness: both calls got output while the other was in flight and
\* resolved with different texts, one on 'close' and one on its timer.
W_C29_TwoCallsInterleaved ==
    /\ calls[1].resolvedBy = "close" /\ calls[2].resolvedBy = "timer"
    /\ calls[1].result = <<"a", LF>> /\ calls[2].result = <<LF, LF>>
    /\ calls[1].child = 2

\* ------------------------------------------------ properties, C31 to C37
\* The file or directory at path lies inside the directory dir.
Inside(dir, path) ==
    /\ Len(path) > Len(dir)
    /\ SubSeq(path, 1, Len(dir)) = dir

\* C31: for every logs content, filename and format, the file exportLogs
\* writes is inside ~/Desktop/ConsoleMCP-Exports, and the path the call
\* returns is the path of that file.
CE_C31_ExportsStayInExportDir ==
    /\ \A file \in disk.written : Inside(exportDir, file.path)
    /\ (req.tool = "export_logs" /\ response # <<>> /\ response[1] = "Logs exported to:") =>
          \E file \in disk.written :
             /\ response = <<"Logs exported to:", LF>> \o pathText(file.path)
             /\ Inside(exportDir, file.path)

\* C32: when the timer of an acquisition operation expires, its callback
\* signals the child before it resolves the call: a call resolved by the timer
\* has called kill(), and a child that was spawned with a timer armed has, once
\* that timer has fired, either ended on its own or been sent the signal.
T_C32_TimerExpirySignalsChild ==
    /\ (timer = "fired") => (proc # "running" \/ killed)
    /\ (resolvedBy = "timer") =>
          /\ timer = "fired" /\ killCalls >= 1
          /\ (procAtResolve = "running") => killed

\* C32 witness: the timer resolved the call while the child was running; the
\* child was signalled and has not ended.
W_C32_TimerKilledRunningChild ==
    /\ timer = "fired" /\ resolvedBy = "timer" /\ procAtResolve = "running"
    /\ killed /\ proc = "running" /\ spawned = 1

\* The argument is missing: undefined, or the empty string.
Absent(arg) == arg = <<>> \/ arg[1] = <<>>

\* The required argument the call lacks, as its error text names it; <<>>
\* when the call lacks none.
Lacks(r) ==
    CASE r.tool = "search_logs" /\ Absent(r.query) -> <<"query">>
      [] r.tool = "watch_for_pattern" /\ Absent(r.query) -> <<"pattern">>
      [] r.tool = "get_device_logs" /\ Absent(r.device) -> <<"device parameter">>
      [] r.tool \in {"get_simulator_logs", "stream_simulator_logs"} /\ Absent(r.simulator) ->
            <<"simulator parameter">>
      [] r.tool = "get_logs_by_level" /\ r.level = <<>> -> <<"level">>
      [] r.tool = "read_crash_report" /\ Absent(r.filename) -> <<"filename">>
      [] r.tool = "export_logs" /\ Absent(r.logs) -> <<"logs content">>
      [] OTHER -> <<>>

\* C33: a tool call that lacks its required argument is answered with the
\* text "Error: <argument> is required" and has no side effect: no engine
\* function ran, no child was spawned, no timer armed, no file read or written.
T_C33_MissingArgumentIsRejected ==
    (Lacks(req) # <<>>) =>
        /\ Len(response) >= 3
        /\ SubSeq(response, 1, 3) = <<"Error: ">> \o Lacks(req) \o <<" is required">>
        /\ op = "none" /\ spawned = 0 /\ proc = "none" /\ timer = "none" /\ ~resolved
        /\ disk = [read |-> <<>>, written |-> {}]

\* C33 witness: export_logs was called without logs and with a file name.
W_C33_ExportWithoutLogs ==
    /\ req.tool = "export_logs" /\ req.logs = <<>> /\ ~Absent(req.filename)
    /\ response # <<>>

\* C34: the tool-call handler never rejects: a tool name that is not
\* registered is answered with "Unknown tool: <name>" and has no side effect,
\* and every exception raised while a tool runs comes back as a text that
\* begins with "Error:" (none is left uncaught).
CE_C34_EveryExceptionBecomesText ==
    /\ (req.tool = "bogus") =>
          /\ response = <<"Unknown tool: ", "bogus">>
          /\ op = "none" /\ spawned = 0 /\ timer = "none"
          /\ disk = [read |-> <<>>, written |-> {}]
    /\ (req.tool = "export_logs" /\ ~Absent(req.logs) /\ disk.written = {}) =>
          response[1] = "Error: "
    /\ ~uncaught

\* C35: when the child of watchForPattern closes on its own before any line
\* matched and before the timer fired, the call resolves at that moment with
\* found = false, an empty matchedLine and the output collected so far,
\* without the timeout marker; the timer firing afterwards changes nothing.
T_C35_WatchResolvesOnEarlyClose ==
    (op = "watchForPattern" /\ resolvedBy = "close" /\ ~found) =>
        /\ resolvedAt = 0 /\ procAtResolve = "closed"
        /\ result = [found |-> FALSE, matchedLine |-> <<>>, allOutput |-> outputAtResolve]
        /\ outputAtResolve = output
        /\ response = Reply(req, result)

\* C35 witness: the child wrote lines that did not match and closed; the
\* call resolved on 'close', and the timer has fired since.
W_C35_TimerFiredAfterClose ==
    /\ op = "watchForPattern" /\ resolvedBy = "close" /\ ~found
    /\ output # <<>> /\ timer = "fired" /\ ~killed

\* C36: getDeviceLogs spawns only when idevicesyslog is available.  When it
\* is not, the call resolves at once with the installation hint, spawns
\* nothing and arms no timer; when it is, the call resolves only when the
\* timer expires or the spawn fails, never because the child ended.
T_C36_DeviceLogsNeedIdevicesyslog ==
    (op = "getDeviceLogs") =>
        IF hasIdevicesyslog
        THEN /\ spawned = 1 /\ timer # "none"
             /\ resolved => resolvedBy \in {"timer", "error"}
             /\ (timer = "armed" /\ resolved) => resolvedBy = "error"
        ELSE /\ spawned = 0 /\ proc = "none" /\ timer = "none"
             /\ resolved /\ resolvedBy = "precheck" /\ resolvedAt = 0
             /\ result = StringResult(<<"idevicesyslog not found. brew install libimobiledevice">>)

\* C36 witness: idevicesyslog is not installed and get_device_logs was
\* called for a connected device.
W_C36_NoIdevicesyslog ==
    /\ op = "getDeviceLogs" /\ ~hasIdevicesyslog /\ resolved /\ spawned = 0

\* The directory dir holds a file of that name.
Holds(dir, name) ==
    /\ \A i \in 1..Len(name) : name[i] # ".."
    /\ readFile(dir \o name) # <<>>

\* C37: for every filename, readCrashReport returns the content only of a
\* file inside one of the two DiagnosticReports directories, the user's
\* directory first, and the not-found text when neither holds that file.
CE_C37_ReadsOnlyCrashReports ==
    (req.tool = "read_crash_report" /\ ~Absent(req.filename)) =>
        LET name == req.filename[1]
            header == <<"Crash Report: ">> \o relText(name) \o <<LF, LF>>
        IN  /\ \A i \in 1..Len(disk.read) :
                  Inside(crashDirs[1], disk.read[i]) \/ Inside(crashDirs[2], disk.read[i])
            /\ response = header \o
                  (IF Holds(crashDirs[1], name) THEN readFile(crashDirs[1] \o name)[1]
                   ELSE IF Holds(crashDirs[2], name) THEN readFile(crashDirs[2] \o name)[1]
                   ELSE <<"Crash report \"">> \o relText(name) \o <<"\" not found.">>)

============================================================================
